---- MODULE Spec2Model ----
(***************************************************************************)
(* Model of the Operia integrations API: the OAuth state-token codec, the  *)
(* OAuth callbacks of the Notion and GitHub integrations with the          *)
(* integrations / notion_pages tables they write, and the GitHub / Notion  *)
(* sync pipeline (installation token, issue fetch, extraction, tasks).     *)
(*                                                                         *)
(* Three specifications share the variables:                               *)
(*   SpecCodec  encryptUserId / decryptUserId over tokens in flight        *)
(*   Spec       concurrent OAuth callbacks and disconnects on the database *)
(*   SpecSync   sync, getIssues and getRepositories requests               *)
(***************************************************************************)
EXTENDS Integers, Sequences, FiniteSets, TLC

VARIABLES
    codec,          \* the state token in flight between /auth and /callback
    integrations,   \* rows of the integrations table
    notionPages,    \* rows of the notion_pages table
    tasks,          \* rows of the tasks table
    reqs,           \* the requests in flight or answered, one record per request
    started         \* requests started so far

vars == <<codec, integrations, notionPages, tasks, reqs, started>>

(***************************************************************************)
(* Bounds of the model.                                                    *)
(***************************************************************************)
MaxIdLen == 18      \* longest user identifier encoded by SpecCodec
MaxIvSeed == 2      \* initialization vectors drawn by SpecCodec: 0..MaxIvSeed
MaxRequests == 2    \* requests started in one behaviour of Spec

(***************************************************************************)
(* Bytes, text and hex.  A string is a sequence of one-character strings;  *)
(* a Buffer is a sequence of bytes 0..255.                                 *)
(***************************************************************************)
HexChars == <<"0", "1", "2", "3", "4", "5", "6", "7", "8", "9", "a", "b", "c", "d", "e", "f">>
UpperHexChars == <<"0", "1", "2", "3", "4", "5", "6", "7", "8", "9", "A", "B", "C", "D", "E", "F">>

\* value of one hex digit as Buffer.from(s, 'hex') reads it, -1 for any other character
HexVal(c) ==
    IF \E i \in 1..16 : HexChars[i] = c
    THEN (CHOOSE i \in 1..16 : HexChars[i] = c) - 1
    ELSE IF \E i \in 1..16 : UpperHexChars[i] = c
         THEN (CHOOSE i \in 1..16 : UpperHexChars[i] = c) - 1
         ELSE -1

\* bytes written without the leading zero of a byte below 16
RECURSIVE ToHexUnpadded(_, _)
ToHexUnpadded(buf, i) ==
    IF i > Len(buf) THEN <<>>
    ELSE (IF buf[i] < 16 THEN <<HexChars[buf[i] + 1]>>
          ELSE <<HexChars[(buf[i] \div 16) + 1], HexChars[(buf[i] % 16) + 1]>>)
         \o ToHexUnpadded(buf, i + 1)

\* buf.toString('hex'): two lowercase digits per byte
ToHex(buf) ==
    [i \in 1..(2 * Len(buf)) |->
        IF i % 2 = 1 THEN HexChars[(buf[(i + 1) \div 2] \div 16) + 1]
        ELSE HexChars[(buf[i \div 2] % 16) + 1]]

\* the number of leading pairs of hex digits of s
HexPairs(s) ==
    LET ok(n) == \A j \in 1..(2 * n) : HexVal(s[j]) >= 0
    IN  CHOOSE n \in 0..(Len(s) \div 2) :
            /\ ok(n)
            /\ \A m \in (n + 1)..(Len(s) \div 2) : ~ok(m)

\* Buffer.from(s, 'hex'): whole pairs of hex digits up to the first pair that is
\* not one; an odd last character is dropped; upper and lower case are read alike
FromHex(s) ==
    [i \in 1..HexPairs(s) |-> 16 * HexVal(s[2 * i - 1]) + HexVal(s[2 * i])]

Dot == "."

HasDot(s, i) == \E j \in i..Len(s) : s[j] = Dot

\* index of the first "." of s at or after i, 0 when there is none
IndexOfDot(s, i) ==
    IF HasDot(s, i)
    THEN CHOOSE j \in i..Len(s) : s[j] = Dot /\ \A k \in i..(j - 1) : s[k] # Dot
    ELSE 0

\* const [ivHex, encryptedHex] = s.split('.'): the first two parts; the second is
\* undefined when s holds no delimiter, and further parts are ignored
SplitFirst(s) ==
    LET d == IndexOfDot(s, 1)
    IN  IF d = 0 THEN s ELSE SubSeq(s, 1, d - 1)

SecondUndefined(s) == ~HasDot(s, 1)

SplitSecond(s) ==
    LET d == IndexOfDot(s, 1)
        e == IndexOfDot(s, d + 1)
    IN  IF e = 0 THEN SubSeq(s, d + 1, Len(s)) ELSE SubSeq(s, d + 1, e - 1)

RECURSIVE Xor(_, _)
Xor(a, b) ==
    IF a = 0 THEN b
    ELSE IF b = 0 THEN a
    ELSE ((a + b) % 2) + 2 * Xor(a \div 2, b \div 2)

XorBlock(x, y) == [i \in 1..Len(x) |-> Xor(x[i], y[i])]

(***************************************************************************)
(* The cipher.  aes-256-cbc is a keyed permutation of 16-byte blocks in    *)
(* CBC mode with PKCS#7 padding.  The permutation stands in for AES: it is *)
(* keyed, invertible, and not the identity; chaining, padding and the      *)
(* checks of final() are as in the library.                                *)
(***************************************************************************)
BlockSize == 16
KeyLength == 32
PadChar == 48   \* '0'

JwtAccessSecret == <<115, 51, 99, 114, 51, 116>>

\* Buffer.from(secret.padEnd(32, '0').slice(0, 32))
DeriveKey(secret) ==
    [i \in 1..KeyLength |-> IF i <= Len(secret) THEN secret[i] ELSE PadChar]

NotionEncryptionKey == DeriveKey(JwtAccessSecret)
GitHubEncryptionKeyOwnSecret == DeriveKey(<<103>> \o JwtAccessSecret)
GitHubEncryptionKey == DeriveKey(JwtAccessSecret)

RECURSIVE ByteSum(_, _)
ByteSum(blk, i) == IF i > Len(blk) THEN 0 ELSE (blk[i] + ByteSum(blk, i + 1)) % 256

\* every byte of the output depends on every byte of the input (17 * 241 = 1 mod 256)
Mix(blk) == [i \in 1..BlockSize |-> (blk[i] + ByteSum(blk, 1)) % 256]
UnMix(blk) ==
    LET s == (ByteSum(blk, 1) * 241) % 256
    IN  [i \in 1..BlockSize |-> (blk[i] + 256 - s) % 256]

\* substitution (5 * 205 = 1 mod 256), rotation and key addition
BlockEncrypt(key, blk) ==
    LET m == Mix(blk)
    IN  [i \in 1..BlockSize |->
            Xor((m[(i % BlockSize) + 1] * 5 + key[i]) % 256, key[i + BlockSize])]

BlockDecrypt(key, blk) ==
    UnMix([j \in 1..BlockSize |->
        LET i == IF j = 1 THEN BlockSize ELSE j - 1
        IN  ((Xor(blk[i], key[i + BlockSize]) + 256 - key[i]) * 205) % 256])

\* PKCS#7: n bytes of value n, n in 1..BlockSize, so that the length is a multiple
PadLen(n) == BlockSize - (n % BlockSize)
Pkcs7Pad(buf) == buf \o [i \in 1..PadLen(Len(buf)) |-> PadLen(Len(buf))]

RECURSIVE CbcEncrypt(_, _, _)
CbcEncrypt(key, prev, buf) ==
    IF buf = <<>> THEN <<>>
    ELSE LET c == BlockEncrypt(key, XorBlock(SubSeq(buf, 1, BlockSize), prev))
         IN  c \o CbcEncrypt(key, c, SubSeq(buf, BlockSize + 1, Len(buf)))

RECURSIVE CbcDecrypt(_, _, _)
CbcDecrypt(key, prev, buf) ==
    IF buf = <<>> THEN <<>>
    ELSE LET c == SubSeq(buf, 1, BlockSize)
         IN  XorBlock(BlockDecrypt(key, c), prev)
             \o CbcDecrypt(key, c, SubSeq(buf, BlockSize + 1, Len(buf)))

\* the padding check of decipher.final()
PaddingOk(plain) ==
    /\ Len(plain) > 0
    /\ LET n == plain[Len(plain)]
       IN  /\ n \in 1..BlockSize
           /\ \A i \in (Len(plain) - n + 1)..Len(plain) : plain[i] = n

\* a user id is ASCII text (a uuid); Buffer.toString('utf8') never throws and
\* gives U+FFFD for a byte that is not ASCII
ReplacementChar == 65533
Utf8Decode(buf) == [i \in 1..Len(buf) |-> IF buf[i] < 128 THEN buf[i] ELSE ReplacementChar]
Utf8Encode(str) == str

EncryptUserIdUnpaddedHex(key, userId, iv) ==
    ToHexUnpadded(iv, 1) \o <<Dot>> \o ToHex(CbcEncrypt(key, iv, Pkcs7Pad(Utf8Encode(userId))))

\* encryptUserId with the iv that randomBytes(16) returned
EncryptUserId(key, userId, iv) ==
    ToHex(iv) \o <<Dot>> \o ToHex(CbcEncrypt(key, iv, Pkcs7Pad(Utf8Encode(userId))))

Thrown(msg) == [ok |-> FALSE, value |-> <<>>, error |-> msg]
Returned(v) == [ok |-> TRUE, value |-> v, error |-> ""]

InvalidState == "Invalid state parameter"

\* decryptUserId: every exception of the body becomes BadRequestException
\* ('Invalid state parameter')
DecryptUserId(key, encryptedData) ==
    LET ivHex == SplitFirst(encryptedData)
        encryptedHex == SplitSecond(encryptedData)
    IN  IF SecondUndefined(encryptedData) THEN Thrown(InvalidState)  \* Buffer.from(undefined)
        ELSE LET iv == FromHex(ivHex)
                 encrypted == FromHex(encryptedHex)
             IN  IF Len(iv) # BlockSize THEN Thrown(InvalidState)   \* createDecipheriv
                 ELSE IF Len(encrypted) = 0 \/ Len(encrypted) % BlockSize # 0
                      THEN Thrown(InvalidState)                      \* final(): block length
                 ELSE LET plain == CbcDecrypt(key, iv, encrypted)
                      IN  IF ~PaddingOk(plain) THEN Thrown(InvalidState)  \* final(): bad decrypt
                          ELSE Returned(Utf8Decode(SubSeq(plain, 1, Len(plain) - plain[Len(plain)])))

NotionEncryptUserId(userId, iv) == EncryptUserId(NotionEncryptionKey, userId, iv)
NotionDecryptUserId(s) == DecryptUserId(NotionEncryptionKey, s)
GitHubEncryptUserId(userId, iv) == EncryptUserId(GitHubEncryptionKey, userId, iv)
GitHubDecryptUserId(s) == DecryptUserId(GitHubEncryptionKey, s)

Providers == {"notion", "github"}

EncryptFor(p, userId, iv) ==
    IF p = "notion" THEN NotionEncryptUserId(userId, iv) ELSE GitHubEncryptUserId(userId, iv)
DecryptFor(p, s) ==
    IF p = "notion" THEN NotionDecryptUserId(s) ELSE GitHubDecryptUserId(s)


(***************************************************************************)
(* SpecCodec: a state token is issued by one provider's /auth endpoint,    *)
(* travels through the browser (where it may be altered), and is decoded   *)
(* by a provider's /callback endpoint.                                     *)
(***************************************************************************)
IdAlphabet == <<48, 49, 50, 51, 52, 53, 54, 55, 56, 57, 97, 98, 99, 100, 101, 102, 45>>
IdStrides == {1, 3}

\* uuid-like text of length n
UserIdText(n, k) == [i \in 1..n |-> IdAlphabet[((i * k) % Len(IdAlphabet)) + 1]]

CodecUserIds == {UserIdText(n, k) : n \in 0..MaxIdLen, k \in IdStrides}
CodecIvs == {[i \in 1..BlockSize |-> (s * 85 + i * (s + 1) * 7) % 256] : s \in 0..MaxIvSeed}

UpperChar(c) ==
    IF \E i \in 11..16 : HexChars[i] = c
    THEN UpperHexChars[CHOOSE i \in 11..16 : HexChars[i] = c]
    ELSE c

\* the hex digit whose low bit differs
FlipChar(c) == IF HexVal(c) < 0 THEN c ELSE HexChars[Xor(HexVal(c), 1) + 1]

TamperKinds ==
    {"none", "noDelimiter", "nonHexIv", "nonHexCipher", "shortIv", "longIv",
     "truncatedCipher", "emptyCipher", "alteredCipher", "alteredIv",
     "extraSegment", "upperCase", "trailingJunk", "arbitrary", "empty"}

\* what the browser hands to /callback in place of the issued token t
Tampered(t, kind) ==
    LET d == IndexOfDot(t, 1)
    IN  CASE kind = "none" -> t
          [] kind = "noDelimiter" -> SubSeq(t, 1, d - 1) \o SubSeq(t, d + 1, Len(t))
          [] kind = "nonHexIv" -> <<"z">> \o SubSeq(t, 2, Len(t))
          [] kind = "nonHexCipher" -> SubSeq(t, 1, d) \o <<"z">> \o SubSeq(t, d + 2, Len(t))
          [] kind = "shortIv" -> SubSeq(t, 3, Len(t))
          [] kind = "longIv" -> <<"0", "0">> \o t
          [] kind = "truncatedCipher" -> SubSeq(t, 1, Len(t) - 2)
          [] kind = "emptyCipher" -> SubSeq(t, 1, d)
          [] kind = "alteredCipher" -> SubSeq(t, 1, Len(t) - 1) \o <<FlipChar(t[Len(t)])>>
          [] kind = "alteredIv" -> <<t[1], FlipChar(t[2])>> \o SubSeq(t, 3, Len(t))
          [] kind = "extraSegment" -> t \o <<Dot, "f", "f">>
          [] kind = "upperCase" -> [i \in 1..Len(t) |-> UpperChar(t[i])]
          [] kind = "trailingJunk" -> t \o <<"z", "z">>
          [] kind = "arbitrary" -> <<"a", "b", "c", Dot, "d", "e">>
          [] OTHER -> <<>>

CodecIdle ==
    [phase |-> "idle", issuer |-> "none", userId |-> <<>>, iv |-> <<>>, token |-> <<>>,
     tamper |-> "none", decoder |-> "none", out |-> Thrown("")]

NoRequests == <<>>

InitCodec ==
    /\ codec = CodecIdle
    /\ integrations = {}
    /\ notionPages = {}
    /\ tasks = {}
    /\ reqs = NoRequests
    /\ started = 0

\* GET /integrations/{p}/auth for user userId; iv is what randomBytes(16) returned
InitiateOAuthFlow(p, userId, iv) ==
    /\ codec.phase = "idle"
    /\ codec' = [codec EXCEPT !.phase = "issued", !.issuer = p, !.userId = userId,
                              !.iv = iv, !.token = EncryptFor(p, userId, iv)]
    /\ UNCHANGED <<integrations, notionPages, tasks, reqs, started>>

\* the browser presents the token, as issued or altered
PresentState(kind) ==
    /\ codec.phase = "issued"
    /\ codec' = [codec EXCEPT !.phase = "presented", !.tamper = kind,
                              !.token = Tampered(codec.token, kind)]
    /\ UNCHANGED <<integrations, notionPages, tasks, reqs, started>>

\* step 1 of handleCallbackAndSave of provider p
DecodeState(p) ==
    /\ codec.phase = "presented"
    /\ codec' = [codec EXCEPT !.phase = "decoded", !.decoder = p,
                              !.out = DecryptFor(p, codec.token)]
    /\ UNCHANGED <<integrations, notionPages, tasks, reqs, started>>

NextCodec ==
    \/ \E p \in Providers, u \in CodecUserIds, iv \in CodecIvs : InitiateOAuthFlow(p, u, iv)
    \/ \E k \in TamperKinds : PresentState(k)
    \/ \E p \in Providers : DecodeState(p)

SpecCodec == InitCodec /\ [][NextCodec]_vars

\* s is the output of encryptUserId for some user id text and some 16-byte iv
ProducedByEncode(s) ==
    LET r == NotionDecryptUserId(s)
    IN  /\ r.ok
        /\ \A i \in 1..Len(r.value) : r.value[i] < 128
        /\ s = NotionEncryptUserId(r.value, FromHex(SplitFirst(s)))

\* C3: for every user identifier U and every initialization vector, decoding the
\* token that encoding U produced returns exactly U, whichever provider's codec
\* encoded it and whichever decodes it.
C3_RoundTrip ==
    (codec.phase = "decoded" /\ codec.tamper = "none")
        => (codec.out.ok /\ codec.out.value = codec.userId)

C3_Witness ==
    /\ codec.phase = "decoded"
    /\ codec.tamper = "none"
    /\ Len(codec.userId) > BlockSize
    /\ codec.out.ok
    /\ \E i \in 1..BlockSize : codec.iv[i] < 16

\* C4: decoding a string that encryptUserId did not produce fails with the
\* invalid-state error and never returns a user identifier.
C4_ForeignStringRejected ==
    (codec.phase = "decoded" /\ ~ProducedByEncode(codec.token)) => ~codec.out.ok


(***************************************************************************)
(* Spec: the OAuth callbacks of both providers and disconnect, as          *)
(* concurrent requests on the database.  A request is a record in reqs;    *)
(* every action is one stretch of a handler between two awaits (a reply of *)
(* the provider, or one statement executed by the database).               *)
(***************************************************************************)
UuidLen == 36
UserA == UserIdText(UuidLen, 1)
UserB == UserIdText(UuidLen, 3)
Users == {UserA, UserB}

CallbackIv == [i \in 1..BlockSize |-> (i * 11) % 256]
TokenA == NotionEncryptUserId(UserA, CallbackIv)
TokenB == GitHubEncryptUserId(UserB, CallbackIv)
Absent == <<>>      \* a query parameter that is missing (or empty: both are falsy)

\* the state parameters a browser sends: issued tokens, an issued token with a
\* further segment, a token without delimiter, or none
StateInputs == {TokenA, TokenB, Tampered(TokenA, "extraSegment"), Tampered(TokenB, "noDelimiter"), Absent}

\* decryptUserId of each provider on each state parameter
StateTable == [p \in Providers |-> [s \in StateInputs |-> DecryptFor(p, s)]]

PageIds == {"p1", "p2"}
NoInstallation == "none"
AppInstallation == "inst1"
NoField == "absent"

Null == "null"

\* the data of the status and disconnect responses; a null workspace is 0 and a
\* null integration is NullIntegration
NullIntegration == [id |-> 0, type |-> Null, workspaceName |-> 0]
NoAnswer == [kind |-> "none", connected |-> FALSE, workspace |-> 0,
             integration |-> NullIntegration]

IdleReq ==
    [kind |-> "none", provider |-> "none", pc |-> "idle", userId |-> <<>>,
     accessToken |-> 0, installationId |-> NoInstallation, existing |-> 0,
     integration |-> 0, pages |-> {}, wrote |-> 0, pageWrites |-> 0, exchanges |-> 0,
     redirects |-> <<>>, escaped |-> FALSE, syncFailed |-> FALSE, answer |-> NoAnswer,
     userInfo |-> FALSE, cachedBefore |-> {}]

Slots == 1..MaxRequests

Init ==
    /\ codec = CodecIdle
    /\ integrations = {}
    /\ notionPages = {}
    /\ tasks = {}
    /\ reqs = [i \in Slots |-> IdleReq]
    /\ started = 0

\* the access token that the provider hands out to request i, and the id
\* (defaultRandom) of the row that request i inserts: fresh values
FreshToken(i) == i
FreshId(i) == i

\* the locals of a handler end with it
Ended(r) == [r EXCEPT !.pc = "done", !.existing = 0, !.pages = {}, !.cachedBefore = {}]

\* res.redirect(CLIENT_URL?{provider}_success=true) or ...?{provider}_error=...
Redirect(r, marker) == [Ended(r) EXCEPT !.redirects = Append(@, marker)]

CallbackNoCatch(r) == [Ended(r) EXCEPT !.escaped = TRUE]

\* the catch of handleCallback: any exception of the service becomes an error redirect
CallbackCatch(r) == Redirect(r, "error")

FetchAndStoreRethrows(r) == CallbackCatch([r EXCEPT !.syncFailed = TRUE])

\* the catch of fetchAndStorePagesForIntegration returns {}; the controller then
\* redirects with notion_success=true&pages={}
FetchAndStoreCatch(r) == Redirect([r EXCEPT !.syncFailed = TRUE], "success")

RowsOf(userId, type) == {row \in integrations : row.userId = userId /\ row.type = type}

\* a decryptUserId that accepts a state token once: a later callback of the same
\* provider that presents a token of the same user is refused
DecodedStateSingleUse ==
    [p \in Providers |-> [s \in StateInputs |->
        IF /\ StateTable[p][s].ok
           /\ \E j \in DOMAIN reqs : /\ reqs[j].kind = "callback"
                                      /\ reqs[j].provider = p
                                      /\ reqs[j].userId = StateTable[p][s].value
        THEN Thrown(InvalidState)
        ELSE StateTable[p][s]]]

\* decryptUserId keeps no record of the tokens it has decoded: its result
\* depends on the key and the token only
DecodedState == StateTable

CallbackAcceptedIgnoringError(hasError, hasCode, state) == hasCode /\ state # Absent

\* the checks of the controller before it calls the service: no error parameter,
\* and code and state both present
CallbackAccepted(hasError, hasCode, state) == ~hasError /\ hasCode /\ state # Absent

\* GET /integrations/{p}/callback?code=&state=&error= : the checks of the
\* controller and step 1 of handleCallbackAndSave, up to the call of the token endpoint
HandleCallback(i, p, hasError, hasCode, state) ==
    /\ started < MaxRequests
    /\ i = started + 1
    /\ started' = started + 1
    /\ LET r == [IdleReq EXCEPT !.kind = "callback", !.provider = p]
           d == DecodedState[p][state]
       IN  reqs' = [reqs EXCEPT ![i] =
               IF ~CallbackAccepted(hasError, hasCode, state) THEN Redirect(r, "error")
               ELSE IF ~d.ok THEN CallbackCatch(r)
               ELSE [r EXCEPT !.pc = "exchange", !.userId = d.value]]
    /\ UNCHANGED <<codec, integrations, notionPages, tasks>>

\* exchangeCodeForToken: the reply of the provider's token endpoint (ok: 2xx
\* without error field); the handler goes on to its next await
ExchangeCodeForToken(i, ok) ==
    /\ reqs[i].pc = "exchange"
    /\ reqs' = [reqs EXCEPT ![i] =
           IF ok
           THEN [@ EXCEPT !.accessToken = FreshToken(i), !.exchanges = @ + 1,
                          !.pc = IF reqs[i].provider = "github" THEN "userInfo" ELSE "select"]
           ELSE CallbackCatch([@ EXCEPT !.exchanges = @ + 1])]
    /\ UNCHANGED <<codec, integrations, notionPages, tasks, started>>

\* getUserInfo in the GitHub callback
GetUserInfo(i, ok) ==
    /\ reqs[i].kind = "callback"
    /\ reqs[i].pc = "userInfo"
    /\ reqs' = [reqs EXCEPT ![i] =
           IF ok THEN [@ EXCEPT !.pc = "installations", !.userInfo = TRUE]
           ELSE CallbackCatch(@)]
    /\ UNCHANGED <<codec, integrations, notionPages, tasks, started>>

\* getAppInstallation in the GitHub callback: its failure is caught and the
\* integration is saved without installation id
GetAppInstallation(i, outcome) ==
    /\ reqs[i].pc = "installations"
    /\ reqs' = [reqs EXCEPT ![i] =
           [@ EXCEPT !.pc = "select",
                     !.installationId =
                         IF outcome = "found" THEN AppInstallation ELSE NoInstallation]]
    /\ UNCHANGED <<codec, integrations, notionPages, tasks, started>>

\* saveIntegration, first statement: select ... where userId and type limit 1
SelectExisting(i, ok) ==
    /\ reqs[i].pc = "select"
    /\ IF ~ok
       THEN reqs' = [reqs EXCEPT ![i] = CallbackCatch(@)]
       ELSE LET rows == RowsOf(reqs[i].userId, reqs[i].provider)
            IN  IF rows = {}
                THEN reqs' = [reqs EXCEPT ![i] = [@ EXCEPT !.pc = "write", !.existing = 0]]
                ELSE \E row \in rows :
                        reqs' = [reqs EXCEPT ![i] = [@ EXCEPT !.pc = "write", !.existing = row.id]]
    /\ UNCHANGED <<codec, integrations, notionPages, tasks, started>>

\* the bot column: { id: botId } for Notion; for GitHub { id, type: 'github_app' }
\* with an installation id and { type: 'personal_token' } without
BotAlwaysApp(provider, installationId) ==
    IF provider = "notion" THEN [id |-> "bot", type |-> NoField]
    ELSE [id |-> installationId, type |-> "github_app"]

BotOf(provider, installationId) ==
    IF provider = "notion" THEN [id |-> "bot", type |-> NoField]
    ELSE IF installationId # NoInstallation
         THEN [id |-> installationId, type |-> "github_app"]
         ELSE [id |-> NoField, type |-> "personal_token"]

NewRowWrongOwner(id, r) ==
    [id |-> id, userId |-> CHOOSE u \in Users : u # r.userId, type |-> r.provider,
     accessToken |-> r.accessToken, workspace |-> r.accessToken,
     bot |-> BotOf(r.provider, r.installationId)]

\* the values of insert(integrations): workspace id and name come with the token
NewRow(id, r) ==
    [id |-> id, userId |-> r.userId, type |-> r.provider,
     accessToken |-> r.accessToken, workspace |-> r.accessToken,
     bot |-> BotOf(r.provider, r.installationId)]

UpdatedRowAsNew(row, r) == NewRow(row.id + 100, r)

UpdatedRowKeepsToken(row, r) ==
    [row EXCEPT !.workspace = r.accessToken,
                !.bot = BotOf(r.provider, r.installationId)]

\* the set clause of update(integrations)
UpdatedRow(row, r) ==
    [row EXCEPT !.accessToken = r.accessToken, !.workspace = r.accessToken,
                !.bot = BotOf(r.provider, r.installationId)]

\* the page ids cached for an integration when fetchAndStorePagesForIntegration
\* is called
PagesCachedFor(id) == {pg.id : pg \in {q \in notionPages : q.integrationId = id}}

AfterSaveThrows(r, id) == CallbackCatch([r EXCEPT !.integration = id, !.wrote = @ + 1])

\* the callback after saveIntegration returned the row: GitHub redirects with
\* github_success=true, Notion goes on to fetchAndStorePagesForIntegration
AfterSave(r, id) ==
    IF r.provider = "github"
    THEN Redirect([r EXCEPT !.integration = id, !.wrote = @ + 1], "success")
    ELSE [r EXCEPT !.integration = id, !.wrote = @ + 1, !.pc = "fetchPages",
                   !.cachedBefore = PagesCachedFor(id)]

\* saveIntegration, second statement: update of the selected row, or insert
WriteIntegration(i, ok) ==
    /\ reqs[i].pc = "write"
    /\ LET r == reqs[i]
       IN  IF ~ok
           THEN /\ reqs' = [reqs EXCEPT ![i] = CallbackCatch(r)]
                /\ UNCHANGED integrations
           ELSE IF r.existing # 0
           THEN LET hit == {row \in integrations : row.id = r.existing}
                IN  IF hit = {}
                    THEN \* no row updated: updateResult[0] is undefined and
                         \* integration.id throws
                         /\ reqs' = [reqs EXCEPT ![i] = CallbackCatch(r)]
                         /\ UNCHANGED integrations
                    ELSE /\ integrations' =
                               (integrations \ hit) \cup {UpdatedRow(row, r) : row \in hit}
                         /\ reqs' = [reqs EXCEPT ![i] = AfterSave(r, r.existing)]
           ELSE /\ integrations' = integrations \cup {NewRow(FreshId(i), r)}
                /\ reqs' = [reqs EXCEPT ![i] = AfterSave(r, FreshId(i))]
    /\ UNCHANGED <<codec, notionPages, tasks, started>>

\* fetchPagesFromNotion: the reply of the search endpoint, filtered to the
\* workspace-level pages
FetchPagesFromNotion(i, ok, pages) ==
    /\ reqs[i].pc = "fetchPages"
    /\ reqs' = [reqs EXCEPT ![i] =
           IF ok THEN [@ EXCEPT !.pc = "deletePages", !.pages = pages]
           ELSE FetchAndStoreCatch(@)]
    /\ UNCHANGED <<codec, integrations, notionPages, tasks, started>>

\* savePagesToDatabase, first statement: delete the pages of the integration
DeletePages(i, ok) ==
    /\ reqs[i].kind = "callback"
    /\ reqs[i].pc = "deletePages"
    /\ LET r == reqs[i]
       IN  IF ~ok
           THEN /\ reqs' = [reqs EXCEPT ![i] = FetchAndStoreCatch(r)]
                /\ UNCHANGED notionPages
           ELSE /\ notionPages' = {pg \in notionPages : pg.integrationId # r.integration}
                /\ reqs' = [reqs EXCEPT ![i] =
                       IF r.pages = {} THEN Redirect([r EXCEPT !.pageWrites = @ + 1], "success")
                       ELSE [r EXCEPT !.pc = "insertPages", !.pageWrites = @ + 1]]
    /\ UNCHANGED <<codec, integrations, tasks, started>>

\* savePagesToDatabase, second statement: one insert of all pages; the page id
\* is the primary key and integration_id references integrations
InsertPages(i, ok) ==
    /\ reqs[i].kind = "callback"
    /\ reqs[i].pc = "insertPages"
    /\ LET r == reqs[i]
           accepted == /\ ok
                       /\ \A pg \in notionPages : pg.id \notin r.pages
                       /\ \E row \in integrations : row.id = r.integration
       IN  IF accepted
           THEN /\ notionPages' = notionPages \cup
                       {[id |-> pid, integrationId |-> r.integration] : pid \in r.pages}
                /\ reqs' = [reqs EXCEPT ![i] = Redirect([r EXCEPT !.pageWrites = @ + 1], "success")]
           ELSE /\ reqs' = [reqs EXCEPT ![i] = FetchAndStoreCatch(r)]
                /\ UNCHANGED notionPages
    /\ UNCHANGED <<codec, integrations, tasks, started>>

\* successResponse({ success: true }, 'Integration disconnected successfully')
Disconnected == [NoAnswer EXCEPT !.kind = "disconnected"]

\* InternalServerErrorException thrown by getIntegration / disconnectIntegration
InternalError(r) == [r EXCEPT !.escaped = TRUE, !.answer.kind = "internalError"]

\* delete from integrations where user_id = userId and type = p
RemainingRowsAnyUser(table, userId, p) == {row \in table : row.type # p}

RemainingRowsWrongType(table, userId, p) ==
    {row \in table : ~(row.userId = userId /\ row.type # p)}

RemainingRows(table, userId, p) ==
    {row \in table : ~(row.userId = userId /\ row.type = p)}

CascadedPagesKept(pages, kept) == pages

\* integration_id references integrations.id with onDelete 'cascade': the pages
\* of a deleted row go with it
CascadedPages(pages, kept) ==
    {pg \in pages : \E row \in kept : row.id = pg.integrationId}

\* POST /integrations/{p}/disconnect: one delete; the pages go with the row
\* (on delete cascade)
DisconnectIntegration(i, p, userId, ok) ==
    /\ started < MaxRequests
    /\ i = started + 1
    /\ started' = started + 1
    /\ LET r == [IdleReq EXCEPT !.kind = "disconnect", !.provider = p, !.userId = userId,
                               !.pc = "done"]
           kept == RemainingRows(integrations, userId, p)
       IN  IF ok
           THEN /\ integrations' = kept
                /\ notionPages' = CascadedPages(notionPages, kept)
                /\ reqs' = [reqs EXCEPT ![i] = [r EXCEPT !.answer = Disconnected]]
           ELSE /\ reqs' = [reqs EXCEPT ![i] = InternalError(r)]
                /\ UNCHANGED <<integrations, notionPages>>
    /\ UNCHANGED <<codec, tasks>>

\* getIntegration: select ... limit 1, the row or null
NoRow ==
    [id |-> 0, userId |-> <<>>, type |-> Null, accessToken |-> 0, workspace |-> 0,
     bot |-> [id |-> NoField, type |-> NoField]]
GetIntegrationResults(userId, p) ==
    IF RowsOf(userId, p) = {} THEN {NoRow} ELSE RowsOf(userId, p)

\* statusData of getIntegrationStatusFlow
StatusDataConnected(integration) ==
    [kind |-> "status", connected |-> TRUE, workspace |-> integration.workspace,
     integration |-> [id |-> integration.id, type |-> integration.type,
                      workspaceName |-> integration.workspace]]

StatusData(integration) ==
    [kind |-> "status", connected |-> integration # NoRow,
     workspace |-> integration.workspace,
     integration |-> IF integration # NoRow
                     THEN [id |-> integration.id, type |-> integration.type,
                           workspaceName |-> integration.workspace]
                     ELSE NullIntegration]

\* GET /integrations/{p}/status: one select, no write
GetIntegrationStatus(i, p, userId, ok) ==
    /\ started < MaxRequests
    /\ i = started + 1
    /\ started' = started + 1
    /\ LET r == [IdleReq EXCEPT !.kind = "status", !.provider = p, !.userId = userId,
                               !.pc = "done"]
       IN  IF ok
           THEN \E integration \in GetIntegrationResults(userId, p) :
                    reqs' = [reqs EXCEPT ![i] = [r EXCEPT !.answer = StatusData(integration)]]
           ELSE reqs' = [reqs EXCEPT ![i] = InternalError(r)]
    /\ UNCHANGED <<codec, integrations, notionPages, tasks>>

Next ==
    \/ \E i \in Slots, p \in Providers, e \in BOOLEAN, c \in BOOLEAN, s \in StateInputs :
            HandleCallback(i, p, e, c, s)
    \/ \E i \in Slots, ok \in BOOLEAN : ExchangeCodeForToken(i, ok)
    \/ \E i \in Slots, ok \in BOOLEAN : GetUserInfo(i, ok)
    \/ \E i \in Slots, o \in {"found", "notFound", "failed"} : GetAppInstallation(i, o)
    \/ \E i \in Slots, ok \in BOOLEAN : SelectExisting(i, ok)
    \/ \E i \in Slots, ok \in BOOLEAN : WriteIntegration(i, ok)
    \/ \E i \in Slots, ok \in BOOLEAN, pages \in SUBSET PageIds : FetchPagesFromNotion(i, ok, pages)
    \/ \E i \in Slots, ok \in BOOLEAN : DeletePages(i, ok)
    \/ \E i \in Slots, ok \in BOOLEAN : InsertPages(i, ok)
    \/ \E i \in Slots, p \in Providers, u \in Users, ok \in BOOLEAN :
            DisconnectIntegration(i, p, u, ok)
    \/ \E i \in Slots, p \in Providers, u \in Users, ok \in BOOLEAN :
            GetIntegrationStatus(i, p, u, ok)

Spec == Init /\ [][Next]_vars


(***************************************************************************)
(* Claims on Spec.                                                         *)
(***************************************************************************)
Callbacks == {i \in Slots : reqs[i].kind = "callback"}
DoneWith(i, marker) == reqs[i].pc = "done" /\ reqs[i].redirects = <<marker>>

\* C1: in every reachable state, overlapping callbacks included, the integrations
\* table holds at most one row per (user, provider).
C1_OneRowPerUserProvider ==
    \A r1 \in integrations, r2 \in integrations :
        (r1.userId = r2.userId /\ r1.type = r2.type) => r1 = r2

SavedBy(i) == reqs[i].pc = "write" /\ reqs'[i].wrote = reqs[i].wrote + 1

C6_ErrorWroteNothing ==
    [][\A i \in Slots :
        (reqs'[i].kind = "callback" /\ reqs[i].pc # "done" /\ reqs'[i].pc = "done"
            /\ reqs'[i].redirects = <<"error">>)
          => /\ integrations' = integrations
             /\ notionPages' = notionPages
             /\ reqs'[i].wrote = 0
             /\ reqs'[i].pageWrites = 0
      ]_vars

\* a callback failed at the second statement of saveIntegration, after a select
\* that found a row
C6_Witness ==
    \E i \in Callbacks :
        /\ DoneWith(i, "error")
        /\ reqs[i].accessToken # 0
        /\ reqs[i].wrote = 0
        /\ integrations # {}

\* C7: in the Notion callback the pages are fetched and stored only after the
\* Integration row is written; the steps of the page store leave the integrations
\* table as it is, and a failed fetch or store still ends in the success redirect.
InPageStore(r) == r.pc \in {"fetchPages", "deletePages", "insertPages"}

C7_SyncAfterSaveBestEffort ==
    [][\A i \in Slots :
        /\ InPageStore(reqs'[i]) =>
              (reqs'[i].provider = "notion" /\ reqs'[i].wrote = 1 /\ reqs'[i].integration # 0)
        /\ (InPageStore(reqs[i]) /\ reqs'[i] # reqs[i]) => integrations' = integrations
        /\ reqs'[i].syncFailed =>
              (reqs'[i].pc = "done" /\ reqs'[i].redirects = <<"success">> /\ reqs'[i].wrote = 1)
      ]_vars

\* the page store of a callback failed; the row it saved is in the table with its
\* token and the callback has redirected with the success marker
C7_Witness ==
    \E i \in Callbacks :
        /\ reqs[i].syncFailed
        /\ DoneWith(i, "success")
        /\ \E row \in integrations :
              row.id = reqs[i].integration /\ row.accessToken = FreshToken(i)

(***************************************************************************)
(* SpecSync: POST /integrations/{provider}/sync of both providers and the  *)
(* GitHub getIssues / getRepositories requests, as concurrent requests on  *)
(* a database in which the integrations were stored by earlier callbacks.  *)
(* Every action is one stretch of a handler between two awaits.            *)
(***************************************************************************)
MaxSyncs == 2       \* requests started in one behaviour of SpecSync
MaxProposals == 2   \* longest proposals array in a reply of the language model
MaxItems == 1       \* most issues / repositories / pages in a reply of the provider

SyncSlots == 1..MaxSyncs

\* the value of accessToken in `Authorization: Bearer ${accessToken}`
NoToken == [kind |-> "none", of |-> 0]
StoredToken(n) == [kind |-> "user", of |-> n]
InstallationTokenCached(i) == [kind |-> "installation", of |-> 1]
\* data.token of the minting request of request i
InstallationToken(i) == [kind |-> "installation", of |-> i]
UndefinedToken == [kind |-> "undefined", of |-> 0]

\* the envelope { code, success, message, data, timestamp } of the API
NullData ==
    [kind |-> Null, total |-> 0, proposalsCount |-> 0, proposals |-> <<>>,
     proposalBatchId |-> 0, savedTasksCount |-> 0]
ItemsData(kind, n) == [NullData EXCEPT !.kind = kind, !.total = n]
Envelope(code, success, message, data) ==
    [code |-> code, success |-> success, message |-> message, data |-> data,
     timestamp |-> "now"]
NoResponse == [Envelope(0, FALSE, "", NullData) EXCEPT !.timestamp = ""]

\* ExtractionResult { success, proposalsCount, proposalBatchId?, error?, proposals? };
\* threw: the call ended with an exception instead of a result
NoExtraction ==
    [threw |-> FALSE, success |-> FALSE, proposalsCount |-> 0, proposalBatchId |-> 0,
     proposals |-> <<>>, error |-> ""]

\* message.content of a reply of the language model, as JSON.parse reads it
Body(json, shape, proposals) == [json |-> json, shape |-> shape, proposals |-> proposals]
NoBody == Body("none", "missing", <<>>)

IdleSync ==
    [kind |-> "none", provider |-> "none", userId |-> <<>>, pc |-> "idle",
     found |-> "unknown", integration |-> 0, stored |-> 0, installationId |-> NoField,
     token |-> NoToken, sent |-> NoToken, mintRequests |-> 0, mintFailed |-> FALSE,
     apiCalls |-> 0, llmCalls |-> 0, taskInserts |-> 0, items |-> 0, pages |-> {},
     llm |-> "none", body |-> NoBody, extraction |-> NoExtraction,
     response |-> NoResponse,
     escaped |-> FALSE, fetched |-> FALSE]

\* the integrations stored by earlier callbacks: rows as saveIntegration writes them
StoredRow(id, p, userId, installationId) ==
    NewRow(id, [IdleReq EXCEPT !.provider = p, !.userId = userId, !.accessToken = id,
                               !.installationId = installationId])
RowGitHubApp == StoredRow(11, "github", UserA, AppInstallation)
RowGitHubPersonal == StoredRow(12, "github", UserA, NoInstallation)
RowNotion == StoredRow(13, "notion", UserA, NoInstallation)
StoredIntegrations ==
    {{}, {RowGitHubApp}, {RowGitHubPersonal}, {RowNotion}, {RowGitHubApp, RowNotion}}

InitSync ==
    /\ codec = CodecIdle
    /\ integrations \in StoredIntegrations
    /\ notionPages = {}
    /\ tasks = {}
    /\ reqs = [i \in SyncSlots |-> IdleSync]
    /\ started = 0

\* the operations of each provider that read the stored integration
KindsOf(p) == IF p = "github" THEN {"sync", "issues", "repos"} ELSE {"sync"}

\* the request is answered with the envelope
Respond(r, envelope) == [r EXCEPT !.pc = "done", !.response = envelope, !.pages = {}]

ServiceErrorMessage(r) ==
    IF r.provider = "notion" THEN "Error syncing Notion content"
    ELSE IF r.kind = "sync" THEN "Error syncing GitHub content"
    ELSE IF r.kind = "issues" THEN "Error fetching issues"
    ELSE "Error fetching repositories"

GitHubServiceCatchRethrows(r) == [r EXCEPT !.pc = "done", !.pages = {}, !.escaped = TRUE]

\* the catch of syncAndExtractContent / getIssues / getRepositories
GitHubServiceCatch(r) == Respond(r, Envelope(500, FALSE, ServiceErrorMessage(r), NullData))

\* if (!integration) return { code: 404, success: false, ... }
GitHubNoIntegrationThrows(r) == [r EXCEPT !.pc = "done", !.found = "no", !.escaped = TRUE]

GitHubNoIntegration(r) ==
    Respond([r EXCEPT !.found = "no"],
            Envelope(404, FALSE, "No GitHub integration found", NullData))

UsesInstallationAlways(bot) == TRUE

\* installationId && installationId !== 'none', installationId being bot.id or null
UsesInstallation(bot) == bot.id # NoField /\ bot.id # "" /\ bot.id # NoInstallation

\* let accessToken = integration.accessToken, and the choice of the token
GitHubWithIntegration(r, row) ==
    [r EXCEPT !.found = "yes", !.integration = row.id, !.stored = row.accessToken,
              !.token = StoredToken(row.accessToken),
              !.installationId = row.bot.id,
              !.pc = IF UsesInstallation(row.bot) THEN "mint" ELSE "fetchItems"]

\* NotionService.syncAndExtractContent: a missing integration is reported as a
\* 404-shaped structured result, every other failure in the uniform envelope
NotionNoIntegration(r) ==
    Respond([r EXCEPT !.found = "no"],
            Envelope(404, FALSE, "No Notion integration found", NullData))
NotionServiceCatch(r) == Respond(r, Envelope(500, FALSE, ServiceErrorMessage(r), NullData))
NotionWithIntegration(r, row) ==
    [r EXCEPT !.found = "yes", !.integration = row.id, !.stored = row.accessToken,
              !.token = StoredToken(row.accessToken), !.pc = "fetchItems"]

ServiceCatch(r) == IF r.provider = "github" THEN GitHubServiceCatch(r) ELSE NotionServiceCatch(r)

\* the request arrives and getIntegration selects the row of (userId, provider),
\* limit 1; a failed select throws inside the try of the operation
GetIntegration(i, kind, p, userId, ok) ==
    /\ started < MaxSyncs
    /\ i = started + 1
    /\ kind \in KindsOf(p)
    /\ started' = started + 1
    /\ LET r == [IdleSync EXCEPT !.kind = kind, !.provider = p, !.userId = userId]
       IN  IF ~ok THEN reqs' = [reqs EXCEPT ![i] = ServiceCatch(r)]
           ELSE IF RowsOf(userId, p) = {}
           THEN reqs' = [reqs EXCEPT ![i] =
                    IF p = "github" THEN GitHubNoIntegration(r) ELSE NotionNoIntegration(r)]
           ELSE \E row \in RowsOf(userId, p) :
                    reqs' = [reqs EXCEPT ![i] =
                        IF p = "github" THEN GitHubWithIntegration(r, row)
                        ELSE NotionWithIntegration(r, row)]
    /\ UNCHANGED <<codec, integrations, notionPages, tasks>>

\* getInstallationAccessToken and the try / catch around it: generateJWT throws
\* (signingError), the POST to the installation's token endpoint fails
\* (networkError), is answered with a non-2xx status (rejected) or with a body
\* that is not JSON (malformedBody); a 2xx reply carries data.token or none
MintFailures == {"signingError", "networkError", "rejected", "malformedBody"}
MintOutcomes == MintFailures \cup {"token", "noToken"}

\* catch (error) { logger.warn(... falling back to user token ...) }
MintFailurePropagates(r) == GitHubServiceCatch([r EXCEPT !.mintFailed = TRUE])

MintFailureFallback(r) == [r EXCEPT !.mintFailed = TRUE, !.pc = "fetchItems"]

GetInstallationAccessToken(i, outcome) ==
    /\ reqs[i].pc = "mint"
    /\ LET r == [reqs[i] EXCEPT
                    !.mintRequests = IF outcome = "signingError" THEN @ ELSE @ + 1]
       IN  reqs' = [reqs EXCEPT ![i] =
               IF outcome \in MintFailures THEN MintFailureFallback(r)
               ELSE [r EXCEPT !.pc = "fetchItems",
                              !.token = IF outcome = "token" THEN InstallationToken(i)
                                        ELSE UndefinedToken]]
    /\ UNCHANGED <<codec, integrations, notionPages, tasks, started>>

\* the first n pages of the workspace
PagesOf(n) == IF n = 0 THEN {} ELSE {"p1"} \cup {"p2" : k \in 2..n}

\* the data of a successful getRepositories
RepositoriesResult(r, n) ==
    Respond([r EXCEPT !.items = n],
            Envelope(200, TRUE, "Repositories retrieved successfully",
                     ItemsData("repositories", n)))

\* fetch of /issues, /user/repos or of the workspace's pages with the chosen
\* token; !response.ok and a rejected fetch throw into the catch
FetchItems(i, ok, n) ==
    /\ reqs[i].pc = "fetchItems"
    /\ LET r == [reqs[i] EXCEPT !.apiCalls = @ + 1, !.sent = reqs[i].token]
       IN  reqs' = [reqs EXCEPT ![i] =
               IF ~ok THEN ServiceCatch(r)
               ELSE LET f == [r EXCEPT !.fetched = TRUE]
                    IN  IF f.provider = "notion"
                        THEN [f EXCEPT !.pc = "deletePages", !.items = n, !.pages = PagesOf(n)]
                        ELSE IF f.kind = "repos" THEN RepositoriesResult(f, n)
                        ELSE [f EXCEPT !.pc = "userInfo", !.items = n]]
    /\ UNCHANGED <<codec, integrations, notionPages, tasks, started>>

\* the sync of the controller goes on to the extraction: the language model
\* is called with the items
StartExtraction(r) == [r EXCEPT !.pc = "extract", !.llmCalls = @ + 1]

\* the data of a successful getIssues
IssuesResult(r) ==
    Respond(r, Envelope(200, TRUE, "Issues retrieved and filtered successfully",
                        ItemsData("issues", r.items)))

\* getUserInfo(accessToken) and the filter to the issues assigned to the login
FilterAssignedIssues(i, ok, assigned) ==
    /\ reqs[i].kind \in {"sync", "issues"}
    /\ reqs[i].pc = "userInfo"
    /\ assigned <= reqs[i].items
    /\ LET r == [reqs[i] EXCEPT !.apiCalls = @ + 1, !.sent = reqs[i].token]
       IN  reqs' = [reqs EXCEPT ![i] =
               IF ~ok THEN GitHubServiceCatch(r)
               ELSE IF r.kind = "issues" THEN IssuesResult([r EXCEPT !.items = assigned])
               ELSE StartExtraction([r EXCEPT !.items = assigned])]
    /\ UNCHANGED <<codec, integrations, notionPages, tasks, started>>

\* the cached pages of the integration are replaced on every sync: delete ...
ReplacePagesDelete(i, ok) ==
    /\ reqs[i].kind = "sync"
    /\ reqs[i].pc = "deletePages"
    /\ LET r == reqs[i]
       IN  IF ~ok
           THEN /\ reqs' = [reqs EXCEPT ![i] = NotionServiceCatch(r)]
                /\ UNCHANGED notionPages
           ELSE /\ notionPages' = {pg \in notionPages : pg.integrationId # r.integration}
                /\ reqs' = [reqs EXCEPT ![i] =
                       IF r.pages = {} THEN StartExtraction(r)
                       ELSE [r EXCEPT !.pc = "insertPages"]]
    /\ UNCHANGED <<codec, integrations, tasks, started>>

\* ... then insert; the page id is the primary key of notion_pages
ReplacePagesInsert(i, ok) ==
    /\ reqs[i].kind = "sync"
    /\ reqs[i].pc = "insertPages"
    /\ LET r == reqs[i]
           accepted == /\ ok
                       /\ \A pg \in notionPages : pg.id \notin r.pages
                       /\ \E row \in integrations : row.id = r.integration
       IN  IF accepted
           THEN /\ notionPages' = notionPages \cup
                       {[id |-> pid, integrationId |-> r.integration] : pid \in r.pages}
                /\ reqs' = [reqs EXCEPT ![i] = StartExtraction([r EXCEPT !.pages = {}])]
           ELSE /\ reqs' = [reqs EXCEPT ![i] = NotionServiceCatch(r)]
                /\ UNCHANGED notionPages
    /\ UNCHANGED <<codec, integrations, tasks, started>>

\* proposals as the language model writes them; a missing optional field is
\* NoField, a missing evidence array reads as the empty one (evidence || [])
CreateTaskFull ==
    [type |-> "create_task", title |-> "t1", description |-> "d1",
     evidence |-> <<"e1">>, priority |-> "high", deadline |-> "2026-02-07",
     status |-> "pending", owner |-> "o1"]
CreateTaskBare ==
    [type |-> "create_task", title |-> "t2", description |-> NoField,
     evidence |-> <<>>, priority |-> NoField, deadline |-> NoField,
     status |-> NoField, owner |-> NoField]
Reminder ==
    [type |-> "reminder", title |-> "t1", description |-> "d1",
     evidence |-> <<>>, priority |-> "low", deadline |-> NoField,
     status |-> NoField, owner |-> NoField]
ProposalPool == {CreateTaskFull, CreateTaskBare, Reminder}
ProposalLists == UNION {[1..n -> ProposalPool] : n \in 0..MaxProposals}

\* message.content of the reply: text that is not JSON, the JSON null, or a
\* JSON object whose proposals member is missing, not an array, or an array
Bodies ==
    {Body("invalid", "missing", <<>>), Body("null", "missing", <<>>),
     Body("object", "missing", <<>>), Body("object", "notArray", <<>>)}
    \cup {Body("object", "array", l) : l \in ProposalLists}

\* replies of the chat completions endpoint: no reply within the timeout, a
\* non-2xx status with or without error.message in the body, a 2xx reply
\* without choices, a 2xx reply with content
TransportFailures == {"timeout", "status", "statusWithMessage"}
LlmReplies ==
    {[kind |-> k, body |-> NoBody] : k \in TransportFailures \cup {"noChoices"}}
    \cup {[kind |-> "content", body |-> b] : b \in Bodies}

\* callLLMDirect: the content, or Error('Azure OpenAI API Error: ...') for an
\* axios error, or the Error thrown for a reply without choices
CallLLMDirect(reply) ==
    IF reply.kind = "content" THEN Returned(reply.body)
    ELSE IF reply.kind = "noChoices" THEN Thrown("Invalid response from Azure OpenAI API")
    ELSE IF reply.kind = "statusWithMessage"
    THEN Thrown("Azure OpenAI API Error: upstream message")
    ELSE IF reply.kind = "status"
    THEN Thrown("Azure OpenAI API Error: Request failed with status code")
    ELSE Thrown("Azure OpenAI API Error: timeout of 90000ms exceeded")

ExtractionFailure(msg) == [NoExtraction EXCEPT !.error = msg]

\* the outer catch of extractFromContent
ExtractCatchRethrows(msg) == [NoExtraction EXCEPT !.threw = TRUE, !.error = msg]

ExtractCatch(msg) == ExtractionFailure(msg)

\* !responseData.proposals || !Array.isArray(responseData.proposals), negated
ValidProposalsLenient(body) == body.shape # "missing"

ValidProposals(body) == body.shape = "array"

\* return { success: true, proposalsCount, proposalBatchId, proposals }
ExtractionSuccessReversed(proposals, batchId) ==
    [NoExtraction EXCEPT !.success = TRUE, !.proposalsCount = Len(proposals),
                         !.proposalBatchId = batchId,
                         !.proposals = [k \in 1..Len(proposals) |->
                                           proposals[Len(proposals) + 1 - k]]]

ExtractionSuccess(proposals, batchId) ==
    [NoExtraction EXCEPT !.success = TRUE, !.proposalsCount = Len(proposals),
                         !.proposalBatchId = batchId, !.proposals = proposals]

\* extractFromContent: call, JSON.parse, validation of the proposals array
ExtractFromContent(reply, batchId) ==
    LET response == CallLLMDirect(reply)
        body == response.value
    IN  IF ~response.ok THEN ExtractCatch(response.error)
        ELSE IF body.json = "invalid"
        THEN ExtractionFailure("Failed to parse AI response. The response was not valid JSON.")
        ELSE IF body.json = "null"
        THEN ExtractCatch("Cannot read properties of null (reading 'proposals')")
        ELSE IF ~ValidProposals(body)
        THEN ExtractionFailure("Invalid response structure: missing or invalid proposals array")
        ELSE ExtractionSuccess(body.proposals, batchId)

\* uuidv4() of the batch of request i
FreshBatch(i) == i

\* p.type === ProposalType.CREATE_TASK
IsAnyProposal(p) == TRUE

IsCreateTask(p) == p.type = "create_task"
CreateTaskProposals(result) == SelectSeq(result.proposals, IsCreateTask)

SourceOf(r) == r.provider
ItemsKind(r) == IF r.provider = "github" THEN "issues" ELSE "pages"
ExtractedMessage(r) ==
    IF r.provider = "github" THEN "GitHub content synced and extracted successfully"
    ELSE "Notion content synced and extracted successfully"
ExtractionErrorMessage(r) ==
    IF r.provider = "github" THEN "Error extracting GitHub content"
    ELSE "Error extracting Notion content"

\* return { code: 200, success: true, data: { total, proposalsCount, proposals,
\* proposalBatchId, savedTasksCount } }
SyncSucceeded(r, savedTasksCount) ==
    Respond(r, Envelope(200, TRUE, ExtractedMessage(r),
        [kind |-> ItemsKind(r), total |-> r.items,
         proposalsCount |-> r.extraction.proposalsCount,
         proposals |-> r.extraction.proposals,
         proposalBatchId |-> r.extraction.proposalBatchId,
         savedTasksCount |-> savedTasksCount]))

ExtractionRejectedAsEmptySuccess(r, result) == SyncSucceeded(r, 0)

\* the else branch of if (result.success): code 400, message result.error ||
\* 'Extraction failed', data null
ExtractionRejected(r, result) ==
    Respond(r, Envelope(400, FALSE,
        IF result.error # "" THEN result.error ELSE "Extraction failed", NullData))

\* the controller after extractFromContent: its catch, the success branch up
\* to createManyTasks, and the else branch
AfterExtract(r0, result) ==
    LET r == [r0 EXCEPT !.extraction = result]
    IN  IF result.threw
        THEN Respond(r, Envelope(500, FALSE, ExtractionErrorMessage(r), NullData))
        ELSE IF result.success
        THEN IF Len(CreateTaskProposals(result)) > 0
             THEN [r EXCEPT !.pc = "insertTasks"]
             ELSE SyncSucceeded(r, 0)
        ELSE ExtractionRejected(r, result)

\* the reply of the language model ends the await of extractFromContent
Extract(i, reply) ==
    /\ reqs[i].pc = "extract"
    /\ reqs' = [reqs EXCEPT ![i] =
           AfterExtract([reqs[i] EXCEPT !.llm = reply.kind, !.body = reply.body],
                        ExtractFromContent(reply, FreshBatch(i)))]
    /\ UNCHANGED <<codec, integrations, notionPages, tasks, started>>

\* the task input the controller maps a proposal to
TaskInput(r, proposal) ==
    [userId |-> r.userId, title |-> proposal.title, description |-> proposal.description,
     sourceType |-> SourceOf(r), tags |-> proposal.evidence, priority |-> proposal.priority,
     endDate |-> proposal.deadline]

OrElse(v, default) == IF v = NoField \/ v = "" THEN default ELSE v

InsertedRowByRow(r, n) == [r EXCEPT !.taskInserts = @ + n]

\* db.insert(tasks).values(inputs): one insert statement for the n inputs
InsertedInOneBatch(r, n) == [r EXCEPT !.taskInserts = @ + 1]

\* the row createManyTasks inserts for an input; id is defaultRandom
NewTaskApproved(id, input) ==
    [id |-> id, userId |-> input.userId, title |-> input.title,
     description |-> OrElse(input.description, Null), sourceType |-> input.sourceType,
     tags |-> input.tags, priority |-> OrElse(input.priority, "medium"),
     startDate |-> Null, endDate |-> OrElse(input.endDate, Null), status |-> "approved"]

NewTaskNoDefaults(id, input) ==
    [id |-> id, userId |-> input.userId, title |-> input.title,
     description |-> input.description, sourceType |-> input.sourceType,
     tags |-> input.tags, priority |-> input.priority,
     startDate |-> Null, endDate |-> input.endDate, status |-> "pending"]

NewTask(id, input) ==
    [id |-> id, userId |-> input.userId, title |-> input.title,
     description |-> OrElse(input.description, Null), sourceType |-> input.sourceType,
     tags |-> input.tags, priority |-> OrElse(input.priority, "medium"),
     startDate |-> Null, endDate |-> OrElse(input.endDate, Null), status |-> "pending"]

FreshTaskId(i, k) == <<i, k>>

\* db.insert(tasks).values(newTasks): the rows are added to the table, whatever
\* it holds
InsertedTasksDeduplicated(table, rows) ==
    table \cup {row \in rows :
                   \A t \in table : ~(/\ t.userId = row.userId /\ t.title = row.title
                                       /\ t.sourceType = row.sourceType)}

InsertedTasks(table, rows) == table \cup rows

TaskInsertFailedAsError(r) ==
    Respond(r, Envelope(500, FALSE, ExtractionErrorMessage(r), NullData))

\* catch (taskError) { logger.error(...) }: the controller goes on to its
\* success response with savedTasksCount 0
TaskInsertFailed(r) == SyncSucceeded(r, 0)

\* createManyTasks: one insert of all rows; a failed insert is logged by the
\* controller and savedTasksCount stays 0
CreateManyTasks(i, ok) ==
    /\ reqs[i].pc = "insertTasks"
    /\ LET r == reqs[i]
           proposals == CreateTaskProposals(r.extraction)
       IN  IF ok
           THEN /\ tasks' = InsertedTasks(tasks,
                       {NewTask(FreshTaskId(i, k), TaskInput(r, proposals[k])) :
                            k \in 1..Len(proposals)})
                /\ reqs' = [reqs EXCEPT ![i] =
                       SyncSucceeded(InsertedInOneBatch(r, Len(proposals)), Len(proposals))]
           ELSE /\ reqs' = [reqs EXCEPT ![i] = TaskInsertFailed(r)]
                /\ UNCHANGED tasks
    /\ UNCHANGED <<codec, integrations, notionPages, started>>

NextSync ==
    \/ \E i \in SyncSlots, p \in Providers, u \in Users, ok \in BOOLEAN :
            \E k \in KindsOf(p) : GetIntegration(i, k, p, u, ok)
    \/ \E i \in SyncSlots, o \in MintOutcomes : GetInstallationAccessToken(i, o)
    \/ \E i \in SyncSlots, ok \in BOOLEAN, n \in 0..MaxItems : FetchItems(i, ok, n)
    \/ \E i \in SyncSlots, ok \in BOOLEAN, n \in 0..MaxItems : FilterAssignedIssues(i, ok, n)
    \/ \E i \in SyncSlots, ok \in BOOLEAN : ReplacePagesDelete(i, ok)
    \/ \E i \in SyncSlots, ok \in BOOLEAN : ReplacePagesInsert(i, ok)
    \/ \E i \in SyncSlots, reply \in LlmReplies : Extract(i, reply)
    \/ \E i \in SyncSlots, ok \in BOOLEAN : CreateManyTasks(i, ok)

SpecSync == InitSync /\ [][NextSync]_vars

(***************************************************************************)
(* SpecAll: the requests of both controllers on one database: callbacks,   *)
(* disconnects and status reads next to sync, getIssues and                *)
(* getRepositories.  UserA has connected the GitHub app and UserB Notion,  *)
(* or nobody has connected anything.                                       *)
(***************************************************************************)
RowNotionOfB == StoredRow(14, "notion", UserB, NoInstallation)
StoredIntegrationsAll == {{}, {RowGitHubApp, RowNotionOfB}}

InitAll ==
    /\ codec = CodecIdle
    /\ integrations \in StoredIntegrationsAll
    /\ notionPages = {}
    /\ tasks = {}
    /\ reqs = [i \in Slots |-> IdleReq]
    /\ started = 0

NextAll == Next \/ NextSync

SpecAll == InitAll /\ [][NextAll]_vars

(***************************************************************************)
(* Claims on SpecSync.                                                     *)
(***************************************************************************)
Answered(i) == reqs[i].pc = "done"

\* C8: when the stored GitHub integration carries an installation id and the
\* minting of the installation token fails (signing error, network error,
\* non-2xx reply, unreadable body), sync, getIssues and getRepositories go on
\* to the provider with the stored access token: the request is not answered
\* before a provider call was made, every provider call carries the stored
\* token, and nothing is thrown.
C8_MintFailureFallsBack ==
    \A i \in SyncSlots :
        reqs[i].mintFailed =>
            /\ reqs[i].token = StoredToken(reqs[i].stored)
            /\ reqs[i].pc = "fetchItems" \/ reqs[i].apiCalls >= 1
            /\ reqs[i].apiCalls >= 1 => reqs[i].sent = StoredToken(reqs[i].stored)
            /\ ~reqs[i].escaped

\* two operations of different kinds succeeded after their minting failed
C8_Witness ==
    \E i, j \in SyncSlots :
        /\ reqs[i].kind = "sync" /\ reqs[j].kind \in {"issues", "repos"}
        /\ \A k \in {i, j} :
              /\ reqs[k].mintFailed /\ Answered(k)
              /\ reqs[k].response.success
              /\ reqs[k].sent = StoredToken(RowGitHubApp.accessToken)

\* C9: a sync of a user who has no integration of the provider is answered
\* with the structured result { code: 404, success: false, data: null } (500
\* when the lookup itself failed), nothing is thrown, and no token is minted,
\* no provider API is called, the language model is not called and no task is
\* inserted.
C9_NoIntegrationIs404 ==
    \A i \in SyncSlots :
        (reqs[i].kind = "sync" /\ RowsOf(reqs[i].userId, reqs[i].provider) = {}) =>
            /\ Answered(i)
            /\ ~reqs[i].escaped
            /\ ~reqs[i].response.success
            /\ reqs[i].response.data = NullData
            /\ \/ reqs[i].found = "no" /\ reqs[i].response.code = 404
               \/ reqs[i].found = "unknown" /\ reqs[i].response.code = 500
            /\ reqs[i].mintRequests = 0 /\ reqs[i].apiCalls = 0
            /\ reqs[i].llmCalls = 0 /\ reqs[i].taskInserts = 0
            /\ \A t \in tasks : t.id[1] # i

\* a sync of each provider was answered with 404 while another user's
\* integrations are stored
C9_Witness ==
    /\ integrations # {}
    /\ \E i, j \in SyncSlots :
          /\ reqs[i].provider = "github" /\ reqs[j].provider = "notion"
          /\ \A k \in {i, j} :
                /\ reqs[k].kind = "sync" /\ reqs[k].found = "no"
                /\ reqs[k].response.code = 404

MalformedOutput(r) == r.llm = "content" /\ ~r.extraction.success

\* C10 as stated: a transport failure of the language-model call (timeout,
\* non-2xx reply) leaves extractFromContent as an exception, and only
\* malformed model output gives a result with success false.
C10_TransportFailureRaises ==
    \A i \in SyncSlots :
        /\ reqs[i].llm \in TransportFailures => reqs[i].extraction.threw
        /\ (reqs[i].llm # "none" /\ ~reqs[i].extraction.threw /\ ~reqs[i].extraction.success)
              => MalformedOutput(reqs[i])

\* C10 amended: a transport failure of the language-model call raises nothing:
\* extractFromContent returns success false, proposalsCount 0 and the
\* message of the error, as it does for malformed model output.
C10_TransportFailureReturned ==
    \A i \in SyncSlots :
        (reqs[i].llm \in TransportFailures \/ MalformedOutput(reqs[i])) =>
            /\ ~reqs[i].extraction.threw
            /\ ~reqs[i].extraction.success
            /\ reqs[i].extraction.proposalsCount = 0
            /\ reqs[i].extraction.proposals = <<>>
            /\ reqs[i].extraction.error # ""
            /\ reqs[i].llm \in TransportFailures =>
                  reqs[i].extraction.error =
                      CallLLMDirect([kind |-> reqs[i].llm, body |-> NoBody]).error

\* one sync met a timeout and another a non-2xx reply; both were answered
C10_Witness ==
    \E i, j \in SyncSlots :
        /\ reqs[i].llm = "timeout" /\ reqs[j].llm \in {"status", "statusWithMessage"}
        /\ \A k \in {i, j} :
              /\ Answered(k) /\ reqs[k].llmCalls = 1
              /\ ~reqs[k].extraction.success

\* C11: for every reply body that is not valid JSON, or is valid JSON without
\* a proposals array, extractFromContent returns success false, proposalsCount
\* 0 and an error message, no proposals and no batch id, and throws nothing.
C11_MalformedBodyRejected ==
    \A i \in SyncSlots :
        (reqs[i].llm = "content" /\ reqs[i].body.shape # "array") =>
            /\ ~reqs[i].extraction.threw
            /\ ~reqs[i].extraction.success
            /\ reqs[i].extraction.proposalsCount = 0
            /\ reqs[i].extraction.error # ""
            /\ reqs[i].extraction.proposals = <<>>
            /\ reqs[i].extraction.proposalBatchId = 0

\* one sync read text that is not JSON, another an object whose proposals
\* member is not an array
C11_Witness ==
    \E i, j \in SyncSlots :
        /\ reqs[i].llm = "content" /\ reqs[i].body.json = "invalid"
        /\ reqs[j].llm = "content" /\ reqs[j].body.shape = "notArray"
        /\ Answered(i) /\ Answered(j)

\* C12: for every reply body that is a JSON object whose proposals member is
\* an array P, extractFromContent returns success true, proposalsCount Len(P),
\* the proposals of P in the same order, and a batch id.
C12_ProposalsVerbatim ==
    \A i \in SyncSlots :
        (reqs[i].llm = "content" /\ reqs[i].body.shape = "array") =>
            /\ ~reqs[i].extraction.threw
            /\ reqs[i].extraction.success
            /\ reqs[i].extraction.proposalsCount = Len(reqs[i].body.proposals)
            /\ Len(reqs[i].extraction.proposals) = Len(reqs[i].body.proposals)
            /\ \A k \in 1..Len(reqs[i].body.proposals) :
                  reqs[i].extraction.proposals[k] = reqs[i].body.proposals[k]
            /\ reqs[i].extraction.proposalBatchId # 0
            /\ reqs[i].extraction.error = ""

\* one sync read the empty array, another two different proposals
C12_Witness ==
    \E i, j \in SyncSlots :
        /\ reqs[i].body = Body("object", "array", <<>>)
        /\ reqs[i].extraction.success /\ reqs[i].extraction.proposalsCount = 0
        /\ reqs[j].body = Body("object", "array", <<Reminder, CreateTaskFull>>)
        /\ reqs[j].extraction.proposals = <<Reminder, CreateTaskFull>>

\* the Task rows that sync i inserted, and the positions of the create_task
\* proposals in its extraction result
TasksOf(i) == {t \in tasks : t.id[1] = i}
CreateTaskPositions(i) ==
    {k \in 1..Len(reqs[i].extraction.proposals) :
        reqs[i].extraction.proposals[k].type = "create_task"}
Succeeded(i) == Answered(i) /\ reqs[i].kind = "sync" /\ reqs[i].response.success

\* C13 as stated: a successful sync inserts one Task row for each create_task
\* proposal of its extraction result and none for another type, and its
\* savedTasksCount is the number of rows it inserted.
C13_OneTaskPerCreateProposal ==
    \A i \in SyncSlots :
        Succeeded(i) =>
            /\ Cardinality(TasksOf(i)) = Cardinality(CreateTaskPositions(i))
            /\ reqs[i].response.data.savedTasksCount = Cardinality(TasksOf(i))

\* C13 amended: a successful sync inserts one Task row for each create_task
\* proposal, all in one batch, or no row at all when the batch insert failed;
\* it inserts none for another type, and savedTasksCount is the number of rows
\* it inserted.
C13_OneTaskPerCreateProposalOrNone ==
    \A i \in SyncSlots :
        Succeeded(i) =>
            /\ \/ TasksOf(i) = {} /\ reqs[i].taskInserts = 0
               \/ /\ Cardinality(TasksOf(i)) = Cardinality(CreateTaskPositions(i))
                  /\ reqs[i].taskInserts = 1
            /\ \A t \in TasksOf(i) :
                  \E k \in CreateTaskPositions(i) :
                      t.title = reqs[i].extraction.proposals[k].title
            /\ \A k \in CreateTaskPositions(i) :
                  TasksOf(i) # {} =>
                      \E t \in TasksOf(i) : t.title = reqs[i].extraction.proposals[k].title
            /\ reqs[i].response.data.savedTasksCount = Cardinality(TasksOf(i))

\* a sync stored one row of a result with a reminder in it, and another sync
\* succeeded although its insert failed
C13_Witness ==
    \E i, j \in SyncSlots :
        /\ Succeeded(i) /\ reqs[i].extraction.proposals = <<Reminder, CreateTaskBare>>
        /\ Cardinality(TasksOf(i)) = 1 /\ reqs[i].response.data.savedTasksCount = 1
        /\ Succeeded(j) /\ CreateTaskPositions(j) # {} /\ TasksOf(j) = {}

\* C14: every Task row a sync created is pending, belongs to the user who
\* called the sync and has the provider of the sync as its sourceType, in
\* every state: no step of the pipeline changes a stored row.
C14_TasksPendingOwnedSourced ==
    \A t \in tasks :
        /\ t.status = "pending"
        /\ t.id[1] \in SyncSlots
        /\ t.userId = reqs[t.id[1]].userId
        /\ t.sourceType = reqs[t.id[1]].provider
        /\ reqs[t.id[1]].kind = "sync"

\* rows of a GitHub sync and of a Notion sync are stored
C14_Witness ==
    /\ \E t \in tasks : t.sourceType = "github" /\ t.userId = UserA
    /\ \E t \in tasks : t.sourceType = "notion" /\ t.userId = UserA
    /\ \A i \in SyncSlots : Answered(i)

\* C15: a Task row is stored only for a proposal the user has accepted.
C15_TasksOnlyFromAcceptedProposals ==
    \A t \in tasks :
        \E k \in CreateTaskPositions(t.id[1]) :
            /\ reqs[t.id[1]].extraction.proposals[k].title = t.title
            /\ reqs[t.id[1]].extraction.proposals[k].status = "approved"

\* the completed syncs of user u on provider p whose extraction succeeded, and
\* whether they read the same content and got the same create_task proposals
ExtractedSyncs(u, p) ==
    {i \in SyncSlots : /\ Answered(i) /\ reqs[i].kind = "sync"
                       /\ reqs[i].userId = u /\ reqs[i].provider = p
                       /\ reqs[i].extraction.success}
SameContent(S) ==
    \A i, j \in S : /\ reqs[i].items = reqs[j].items
                    /\ CreateTaskProposals(reqs[i].extraction) =
                       CreateTaskProposals(reqs[j].extraction)
StoredSyncs(u, p) ==
    {i \in ExtractedSyncs(u, p) :
        reqs[i].response.data.savedTasksCount = Len(CreateTaskProposals(reqs[i].extraction))}
RowsOfSyncs(S) == UNION {TasksOf(i) : i \in S}
ProposalsPerSync(S) ==
    IF S = {} THEN 0 ELSE Len(CreateTaskProposals(reqs[CHOOSE i \in S : TRUE].extraction))

C17_NoDuplicateTasks ==
    \A t1, t2 \in tasks :
        (t1.userId = t2.userId /\ t1.title = t2.title /\ t1.sourceType = t2.sourceType)
            => t1 = t2

(***************************************************************************)
(* Claims on Spec: disconnect, status and the page store.                  *)
(***************************************************************************)
Arrives(i, kind) == reqs[i].pc = "idle" /\ reqs'[i].kind = kind
StoredFor(table, userId, p) == {row \in table : row.userId = userId /\ row.type = p}

\* C18: a disconnect for (user, provider) answers with the same success
\* response whether or not a row exists (or fails with the internal error of
\* a failed delete and changes nothing); after a successful one no row of the
\* pair exists; one that finds no row, as the second of two in a row does,
\* leaves the tables as they are.
C18_DisconnectIdempotent ==
    [][\A i \in Slots :
          Arrives(i, "disconnect") =>
              LET r == reqs'[i]
              IN  /\ r.pc = "done"
                  /\ r.answer.kind \in {"disconnected", "internalError"}
                  /\ r.answer.kind = "internalError" =>
                        r.escaped /\ UNCHANGED <<integrations, notionPages>>
                  /\ r.answer.kind = "disconnected" =>
                        /\ r.answer = Disconnected /\ ~r.escaped
                        /\ StoredFor(integrations', r.userId, r.provider) = {}
                        /\ StoredFor(integrations, r.userId, r.provider) = {} =>
                              UNCHANGED <<integrations, notionPages>>]_vars

\* a callback stored a row, and a disconnect of the same pair removed it
C18_Witness ==
    \E i, j \in Slots :
        /\ reqs[i].kind = "callback" /\ reqs[i].wrote = 1 /\ reqs[i].pc = "done"
        /\ reqs[j].kind = "disconnect" /\ reqs[j].answer = Disconnected
        /\ reqs[j].userId = reqs[i].userId /\ reqs[j].provider = reqs[i].provider
        /\ integrations = {}

\* C19: the status endpoint answers connected true exactly when a row of the
\* calling user and the provider is stored at the time of the read, with that
\* row's id and type; with integration null and workspace null when none is
\* stored; and it writes nothing.
C19_StatusReflectsStoredRow ==
    [][\A i \in Slots :
          Arrives(i, "status") =>
              LET r == reqs'[i]
                  rows == StoredFor(integrations, r.userId, r.provider)
              IN  /\ UNCHANGED <<integrations, notionPages, tasks>>
                  /\ r.pc = "done"
                  /\ r.answer.kind \in {"status", "internalError"}
                  /\ r.answer.kind = "status" =>
                        /\ r.answer.connected <=> rows # {}
                        /\ rows = {} => /\ r.answer.integration = NullIntegration
                                        /\ r.answer.workspace = 0
                        /\ rows # {} =>
                              \E row \in rows :
                                  /\ r.answer.integration.id = row.id
                                  /\ r.answer.integration.type = r.provider]_vars

\* a status read found the row a callback had stored
C19_Witness ==
    \E i, j \in Slots :
        /\ reqs[i].kind = "callback" /\ reqs[i].wrote = 1
        /\ reqs[j].kind = "status" /\ reqs[j].answer.connected
        /\ reqs[j].answer.integration.id = reqs[i].integration

\* C20: when a page store of an integration completes successfully, the cached
\* pages of the integration are exactly the pages of that store.
StoreCompletes(i) ==
    /\ reqs[i].pc \in {"deletePages", "insertPages"}
    /\ reqs'[i].pc = "done"
    /\ reqs'[i].pageWrites = reqs[i].pageWrites + 1
CachedPages(table, integrationId) == {pg.id : pg \in {q \in table : q.integrationId = integrationId}}

C20_StoreReplacesCache ==
    [][\A i \in Slots :
          StoreCompletes(i) =>
              CachedPages(notionPages', reqs[i].integration) = reqs[i].pages]_vars

(***************************************************************************)
(* Claims on Spec: replay of a state token, the order of the steps of a    *)
(* callback, overlapping callbacks, and the pages of a removed row.        *)
(***************************************************************************)
\* C21: a state token stays valid after use: whenever a callback presents an
\* issued token (with a code and without error parameter), whatever callbacks
\* presented it before, the token decodes to the user it was issued for and the
\* callback proceeds to the code exchange.
C21_TokenReplayable ==
    [][\A i \in Slots, p \in Providers :
          /\ HandleCallback(i, p, FALSE, TRUE, TokenA) =>
                (reqs'[i].pc = "exchange" /\ reqs'[i].userId = UserA)
          /\ HandleCallback(i, p, FALSE, TRUE, TokenB) =>
                (reqs'[i].pc = "exchange" /\ reqs'[i].userId = UserB)]_vars

\* two callbacks of one provider presented the token of UserB (the only state
\* parameter that decodes to UserB) and both called the token endpoint
C21_Witness ==
    \E i, j \in Slots :
        /\ i # j
        /\ reqs[i].kind = "callback" /\ reqs[j].kind = "callback"
        /\ reqs[i].provider = reqs[j].provider
        /\ reqs[i].userId = UserB /\ reqs[j].userId = UserB
        /\ reqs[i].exchanges = 1 /\ reqs[j].exchanges = 1

\* C23: the steps of a callback run in order: a callback reaches the token
\* endpoint only if it has no error parameter, code and state are both present
\* and the state decodes; the token endpoint is called at that step only; and
\* the Integration row is written only after the code exchange succeeded and,
\* for GitHub, after the user lookup succeeded.
C23_CallbackStepOrder ==
    [][\A i \in Slots :
          /\ (Arrives(i, "callback") /\ reqs'[i].pc = "exchange") =>
                \A p \in Providers, hasError \in BOOLEAN, hasCode \in BOOLEAN, state \in StateInputs :
                    HandleCallback(i, p, hasError, hasCode, state) =>
                        (~hasError /\ hasCode /\ state # Absent /\ StateTable[p][state].ok)
          /\ reqs'[i].exchanges # reqs[i].exchanges =>
                (reqs[i].pc = "exchange" /\ reqs'[i].exchanges = reqs[i].exchanges + 1)
          /\ (Arrives(i, "callback") /\ reqs'[i].pc # "exchange") =>
                (reqs'[i].pc = "done" /\ reqs'[i].exchanges = 0)
          /\ reqs'[i].pc = "write" =>
                /\ reqs'[i].exchanges = 1
                /\ reqs'[i].accessToken = FreshToken(i)
                /\ reqs'[i].provider = "github" => reqs'[i].userInfo
          /\ SavedBy(i) => reqs[i].accessToken = FreshToken(i)
          /\ (reqs'[i].kind = "callback" /\ integrations' # integrations) => SavedBy(i)
                \/ \E j \in Slots \ {i} : reqs'[j] # reqs[j]]_vars

\* a GitHub callback stored its row after exchange and user lookup, and another
\* callback was turned away before the token endpoint
C23_Witness ==
    \E i, j \in Slots :
        /\ reqs[i].kind = "callback" /\ reqs[i].provider = "github"
        /\ reqs[i].wrote = 1 /\ reqs[i].exchanges = 1 /\ reqs[i].userInfo
        /\ reqs[j].kind = "callback" /\ DoneWith(j, "error") /\ reqs[j].exchanges = 0

\* C24: when a callback stores its row after another callback of the same user
\* and provider stored its own, a single row of the pair remains, and it holds
\* the access token of the callback that wrote last.
C24_LastWriteWins ==
    [][\A i \in Slots : \A j \in Slots \ {i} :
          (/\ SavedBy(i)
           /\ reqs[j].kind = "callback" /\ reqs[j].wrote = 1
           /\ reqs[j].userId = reqs[i].userId /\ reqs[j].provider = reqs[i].provider)
          => \E row \in integrations' :
                /\ StoredFor(integrations', reqs[i].userId, reqs[i].provider) = {row}
                /\ row.accessToken = reqs'[i].accessToken]_vars

\* C25: every cached page refers to a stored Integration row, in every state:
\* a disconnect takes the pages of the row with it, and a page store that
\* overlaps the disconnect leaves no page of the removed row behind.
C25_PagesReferToStoredRow ==
    \A pg \in notionPages : \E row \in integrations : row.id = pg.integrationId

\* a page store had deleted the old pages, a disconnect removed the row, and
\* the insert of the store was refused
C25_Witness ==
    \E i, j \in Slots :
        /\ reqs[i].kind = "callback" /\ reqs[i].pc = "done"
        /\ reqs[i].pageWrites = 1 /\ reqs[i].syncFailed
        /\ reqs[j].kind = "disconnect" /\ reqs[j].answer = Disconnected
        /\ reqs[j].userId = reqs[i].userId /\ reqs[j].provider = reqs[i].provider
        /\ \A row \in integrations : row.id # reqs[i].integration
        /\ notionPages = {}

(***************************************************************************)
(* Claims on SpecSync: the envelope of the GitHub sync, the token sent to  *)
(* the provider, and the stages of a sync.                                 *)
(***************************************************************************)
GitHubSyncs == {i \in SyncSlots : reqs[i].provider = "github" /\ reqs[i].kind = "sync"}

C26_NoInstallationUsesStoredToken ==
    \A i \in SyncSlots :
        LET r == reqs[i]
        IN  (/\ r.provider = "github" /\ r.found = "yes"
             /\ r.installationId \in {NoField, NoInstallation, ""})
            => /\ r.pc # "mint"
               /\ r.mintRequests = 0 /\ ~r.mintFailed
               /\ r.token = StoredToken(r.stored)
               /\ r.apiCalls >= 1 => r.sent = StoredToken(r.stored)

\* a sync on the personal-token integration fetched the issues and the user
C26_Witness ==
    \E i \in GitHubSyncs :
        /\ reqs[i].installationId = NoField /\ reqs[i].integration = RowGitHubPersonal.id
        /\ reqs[i].apiCalls = 2
        /\ reqs[i].sent = StoredToken(RowGitHubPersonal.accessToken)

\* C27: an installation token is not reused across requests: a request on an
\* integration with an installation id does its own minting (one request to
\* the minting endpoint, none only when signing the assertion fails), and an
\* installation token it holds or sends is the one minted by itself.
C27_InstallationTokenPerRequest ==
    \A i \in SyncSlots :
        LET r == reqs[i]
        IN  /\ (r.provider = "github" /\ r.found = "yes" /\ r.installationId = AppInstallation) =>
                  /\ r.mintRequests <= 1
                  /\ r.pc # "mint" => (r.mintRequests = 1 \/ (r.mintFailed /\ r.mintRequests = 0))
            /\ r.token.kind = "installation" => (r.token.of = i /\ r.mintRequests = 1)
            /\ r.sent.kind = "installation" => r.sent = r.token
            /\ \A j \in SyncSlots \ {i} :
                  r.token.kind = "installation" => reqs[j].token # r.token /\ reqs[j].sent # r.token

\* two requests on the app integration each minted a token and called the
\* provider with it
C27_Witness ==
    \E i, j \in SyncSlots :
        /\ i # j
        /\ reqs[i].integration = RowGitHubApp.id /\ reqs[j].integration = RowGitHubApp.id
        /\ reqs[i].sent.kind = "installation" /\ reqs[j].sent.kind = "installation"
        /\ reqs[i].mintRequests = 1 /\ reqs[j].mintRequests = 1

\* C28: the token of every provider call of a GitHub operation is either the
\* token of a successful minting request of this operation or the stored
\* access token of the integration, whatever the minting returns.
C28_SentTokenMintedOrStored ==
    \A i \in SyncSlots :
        LET r == reqs[i]
        IN  (r.provider = "github" /\ r.apiCalls >= 1) =>
                \/ r.sent = StoredToken(r.stored)
                \/ /\ r.sent.kind = "installation" /\ r.sent.of = i
                   /\ r.mintRequests = 1 /\ ~r.mintFailed

Syncs == {i \in SyncSlots : reqs[i].kind = "sync"}

\* C29: the stages of a sync run in the order fetch, extract, persist: the
\* language model is called at most once and only after the provider fetch
\* succeeded; the tasks are inserted at most once, all rows in that one insert,
\* and only after the extraction returned success true.
C29_FetchExtractPersist ==
    \A i \in Syncs :
        LET r == reqs[i]
        IN  /\ r.llmCalls <= 1 /\ r.taskInserts <= 1
            /\ (r.llmCalls = 1 \/ r.pc = "extract") =>
                  /\ r.fetched /\ r.apiCalls >= 1
                  /\ r.provider = "github" => r.apiCalls = 2
            /\ r.llm # "none" => r.llmCalls = 1
            /\ (r.pc = "insertTasks" \/ r.taskInserts = 1 \/ TasksOf(i) # {}) =>
                  (r.llmCalls = 1 /\ r.llm # "none" /\ r.extraction.success)
            /\ TasksOf(i) # {} => r.taskInserts = 1

\* a sync fetched, extracted two create_task proposals and inserted both rows
C29_Witness ==
    \E i \in Syncs :
        /\ Answered(i) /\ reqs[i].fetched /\ reqs[i].llmCalls = 1
        /\ reqs[i].taskInserts = 1 /\ Cardinality(TasksOf(i)) = 2

\* C30: when the extraction of a sync returns success false (malformed output
\* of the model or a failed call of the model), the sync is answered with
\* success false, a message and null data, and no Task row is inserted.
C30_FailedExtractionRejected ==
    \A i \in Syncs :
        LET r == reqs[i]
        IN  (r.llm # "none" /\ ~r.extraction.threw /\ ~r.extraction.success) =>
                /\ Answered(i)
                /\ ~r.response.success
                /\ r.response.code = 400
                /\ r.response.message # ""
                /\ r.response.data = NullData
                /\ r.taskInserts = 0 /\ TasksOf(i) = {}

\* one sync was turned down after malformed output, another after a failed call
C30_Witness ==
    \E i, j \in Syncs :
        /\ MalformedOutput(reqs[i]) /\ ~reqs[i].response.success
        /\ reqs[j].llm \in TransportFailures /\ ~reqs[j].extraction.success
        /\ ~reqs[j].response.success

(***************************************************************************)
(* Claims on SpecSync: a failed insert of the tasks, and proposals without *)
(* their optional fields.                                                  *)
(***************************************************************************)
InsertFailed(i) ==
    /\ Answered(i) /\ reqs[i].extraction.success /\ ~reqs[i].extraction.threw
    /\ CreateTaskPositions(i) # {} /\ reqs[i].taskInserts = 0

\* C31: when the batch insert of the tasks of a sync fails, no task of the
\* sync is stored, and the sync is answered with code 200, success true, the
\* whole list of proposals and savedTasksCount 0.
C31_FailedInsertStillSucceeds ==
    \A i \in Syncs :
        InsertFailed(i) =>
            LET e == reqs[i].response
            IN  /\ TasksOf(i) = {}
                /\ e.code = 200 /\ e.success
                /\ e.data.proposals = reqs[i].extraction.proposals
                /\ e.data.proposalsCount = Len(reqs[i].extraction.proposals)
                /\ e.data.savedTasksCount = 0

\* the insert of two create_task proposals failed and the sync was answered
C31_Witness ==
    \E i \in Syncs :
        /\ InsertFailed(i)
        /\ Cardinality(CreateTaskPositions(i)) = 2
        /\ reqs[i].response.data.savedTasksCount = 0

CreateTasksOf(i) == SelectSeq(reqs[i].extraction.proposals, IsCreateTask)

\* C32: a create_task proposal without its optional fields is stored with the
\* others of its batch: without deadline the task has no end date, without
\* evidence it has empty tags, without priority it has priority medium, and
\* the owner of the proposal, given or not, is no part of the task.
C32_OptionalFieldsTolerated ==
    \A i \in Syncs :
        reqs[i].taskInserts = 1 =>
            /\ Cardinality(TasksOf(i)) = Len(CreateTasksOf(i))
            /\ \A n \in 1..Len(CreateTasksOf(i)) :
                  LET p == CreateTasksOf(i)[n]
                  IN  \E t \in TasksOf(i) :
                        /\ t.id = <<i, n>> /\ t.title = p.title
                        /\ t.endDate = IF p.deadline = NoField THEN Null ELSE p.deadline
                        /\ t.tags = p.evidence
                        /\ t.priority = IF p.priority = NoField THEN "medium" ELSE p.priority
                        /\ t.description = IF p.description = NoField THEN Null ELSE p.description
                        /\ "owner" \notin DOMAIN t

\* one batch stored a proposal without optional fields next to a full one
C32_Witness ==
    \E i \in Syncs :
        /\ reqs[i].extraction.proposals = <<CreateTaskBare, CreateTaskFull>>
        /\ reqs[i].taskInserts = 1
        /\ \E t \in TasksOf(i) :
              /\ t.id = <<i, 1>> /\ t.endDate = Null /\ t.tags = <<>> /\ t.priority = "medium"
        /\ \E t \in TasksOf(i) : t.id = <<i, 2>> /\ t.endDate = CreateTaskFull.deadline

(***************************************************************************)
(* Claims on Spec: re-authorization, the GitHub descriptor, and the page   *)
(* caches of different integrations.                                       *)
(***************************************************************************)
ExpectedBot(r) ==
    IF r.provider = "notion" THEN [id |-> "bot", type |-> NoField]
    ELSE IF r.installationId = AppInstallation
         THEN [id |-> AppInstallation, type |-> "github_app"]
         ELSE [id |-> NoField, type |-> "personal_token"]

C34_GitHubDescriptor ==
    [][/\ \A i \in Slots :
            /\ (reqs[i].pc = "userInfo" /\ reqs'[i].pc # "installations" /\ reqs'[i] # reqs[i]) =>
                  /\ DoneWith(i, "error")' /\ reqs'[i].wrote = 0
                  /\ integrations' = integrations
            /\ (reqs'[i].kind = "callback" /\ reqs'[i].provider = "github" /\ reqs'[i].wrote > 0) =>
                  reqs'[i].userInfo
            /\ (reqs[i].pc = "installations" /\ reqs'[i] # reqs[i]) => reqs'[i].pc = "select"
            /\ (SavedBy(i) /\ reqs[i].provider = "github") =>
                  \E row \in integrations' :
                      /\ row.id = reqs'[i].integration
                      /\ row.bot = ExpectedBot(reqs[i])
       /\ \A row \in integrations' :
            row.type = "github" => (row.bot.id # NoField <=> row.bot.type = "github_app")]_vars

\* one GitHub callback saved a personal_token row after the installation lookup
\* gave nothing, another ended after its user lookup failed
C34_Witness ==
    \E i, j \in Slots :
        /\ reqs[i].kind = "callback" /\ reqs[i].provider = "github"
        /\ reqs[i].wrote = 1 /\ reqs[i].installationId = NoInstallation
        /\ \E row \in integrations :
              row.id = reqs[i].integration /\ row.bot.type = "personal_token"
        /\ reqs[j].kind = "callback" /\ reqs[j].provider = "github"
        /\ DoneWith(j, "error") /\ reqs[j].accessToken # 0 /\ ~reqs[j].userInfo

\* C36: the page caches of different integrations are independent: a step of
\* a page store leaves the pages of every other integration as they are, and
\* the insert of a store whose integration is stored and has no page cached
\* succeeds when the database is available, whatever the other integrations
\* have cached.
C36_PageCachesIndependent ==
    [][\A i \in Slots :
          /\ (InPageStore(reqs[i]) /\ reqs'[i] # reqs[i]) =>
                {pg \in notionPages' : pg.integrationId # reqs[i].integration}
                    = {pg \in notionPages : pg.integrationId # reqs[i].integration}
          /\ (/\ InsertPages(i, TRUE)
              /\ \E row \in integrations : row.id = reqs[i].integration
              /\ CachedPages(notionPages, reqs[i].integration) = {}) =>
                /\ ~reqs'[i].syncFailed
                /\ CachedPages(notionPages', reqs[i].integration) = reqs[i].pages]_vars

\* C37: a page store is all or nothing for the cache of its integration: when
\* the store fails, at the fetch or at the insert, and no other store of the
\* integration is running, the pages cached when the store was called are
\* still cached.
C37_PageStoreAllOrNothing ==
    [][\A i \in Slots :
          (/\ InPageStore(reqs[i])
           /\ reqs'[i].syncFailed
           /\ \A j \in Slots \ {i} : ~(reqs[j].kind = "callback" /\ InPageStore(reqs[j])))
          => reqs[i].cachedBefore \subseteq CachedPages(notionPages', reqs[i].integration)]_vars

(***************************************************************************)
(* Claim on SpecCodec: a state token at the other provider's callback.     *)
(***************************************************************************)
\* C35: a state token is not bound to the provider that issued it: the token
\* that one provider's connect endpoint issued for a user, presented unaltered
\* to the callback of the other provider, is accepted there and decodes to
\* the same user.
C35_TokenNotBoundToProvider ==
    (/\ codec.phase = "decoded" /\ codec.tamper = "none"
     /\ codec.decoder # codec.issuer)
        => (codec.out.ok /\ codec.out.value = codec.userId)

\* the GitHub callback decoded a token that the Notion connect endpoint issued
\* for a user id of full length
C35_Witness ==
    /\ codec.phase = "decoded" /\ codec.tamper = "none"
    /\ codec.issuer = "notion" /\ codec.decoder = "github"
    /\ Len(codec.userId) = MaxIdLen
    /\ codec.out.ok /\ codec.out.value = codec.userId

(***************************************************************************)
(* Claim on SpecAll: what a request leaves alone.                          *)
(***************************************************************************)
OwnRow(row, userId, p) == row.userId = userId /\ row.type = p
PagesOfOthers(pages, rows, userId, p) ==
    {pg \in pages : ~\E row \in rows : row.id = pg.integrationId /\ OwnRow(row, userId, p)}

\* C38: a step of a callback, disconnect, status read or sync of user U on
\* provider P changes no Integration row other than those of (U, P) (so none
\* of another user and not U's row of the other provider), no cached page of
\* another integration and no task of another user.
C38_OtherUsersUntouched ==
    [][\A i \in Slots :
          reqs'[i] # reqs[i] =>
              LET u == reqs'[i].userId
                  p == reqs'[i].provider
                  rows == integrations \cup integrations'
              IN  /\ {row \in integrations' : ~OwnRow(row, u, p)}
                        = {row \in integrations : ~OwnRow(row, u, p)}
                  /\ PagesOfOthers(notionPages', rows, u, p)
                        = PagesOfOthers(notionPages, rows, u, p)
                  /\ {t \in tasks' : t.userId # u} = {t \in tasks : t.userId # u}]_vars

\* UserB's Notion sync cached pages and stored tasks, UserA's Notion callback
\* saved a row and ran its page store, and the row, the pages and the tasks of
\* UserB are stored
C38_Witness ==
    \E i, j \in Slots :
        /\ reqs[j].kind = "sync" /\ reqs[j].provider = "notion" /\ reqs[j].userId = UserB
        /\ reqs[j].pc = "done"
        /\ \E pg \in notionPages : pg.integrationId = RowNotionOfB.id
        /\ \E t \in tasks : t.userId = UserB
        /\ reqs[i].kind = "callback" /\ reqs[i].provider = "notion" /\ reqs[i].userId = UserA
        /\ reqs[i].pc = "done" /\ reqs[i].wrote = 1
        /\ RowNotionOfB \in integrations /\ RowGitHubApp \in integrations

====
